---- MODULE Spec2Model ----
(***************************************************************************)
(* State-machine model of the YOWOF training / evaluation infrastructure:  *)
(*   - AVA_Evaluator        (packages/evaluator/ava_evaluator.py)          *)
(*   - Criterion            (models/detector/yowof/loss.py)                *)
(*   - UCF_JHMDB_Dataset    (packages/dataset/ucf_jhmdb.py)                *)
(*   - load_weight          (utils/misc.py)                                *)
(* Each component has its own specification; the variables of the other    *)
(* components stay at their initial values.                                *)
(***************************************************************************)
EXTENDS Integers, Sequences, FiniteSets, TLC

VARIABLES
    \* ---- AVA_Evaluator ----
    testset,          \* the samples' key_frame_info, in dataset order: <<video_idx, sec>>
    dets,             \* number of boxes the detector returns for each sample
    out_classes,      \* length of the class-score vector the detector emits
    max_passes,       \* number of evaluation passes the run may start
    all_preds,        \* self.all_preds
    ev_pc,            \* "idle" | "stream" | "batch"
    ev_result,        \* outcome of the last pass: "none" | "returned" | "raised"
    iter_i,           \* loop counter of the running pass
    prev_video_id,    \* local of evaluate_frame_map_stream
    initialization,   \* model.initialization
    inference_mode,   \* mode given to model.set_inference_mode
    invoked,          \* the last model invocation of the streaming pass, if any: the
                      \* sample, and model.initialization on entering the iteration
                      \* and at the call
    handed,           \* per mode, the buffer calculate_mAP last scored, if any
    detections,       \* per mode, the tables get_ava_eval_data last returned, if any
    passes            \* passes started so far

VARIABLES
    \* ---- Criterion (one __call__ per worker process) ----
    dist,                    \* whether a process group is available and initialised
    world,                   \* number of processes of the run
    len_clip,                \* len(targets)
    cfg,                     \* self.cfg: igt, iou_t
    loss_cls_weight,         \* self.loss_cls_weight
    loss_reg_weight,         \* self.loss_reg_weight
    c_pc,                    \* per worker: "match" | "sync" | "wait" | "loss" | "finish" | "done" | "raised"
    fid,                     \* per worker: frame index of the loop
    frame_in,                \* per worker: targets, matcher indices and IoUs of the frame
    gt_cls,                  \* per worker: class target of every slot of the frame
    num_foreground,          \* per worker: the frame's foreground count (times world once reduced)
    local_fg,                \* per worker: the frame's local foreground count
    frame_num_gt,            \* per worker: ground-truth objects of the frame
    cur_frame_loss_bboxes,   \* per worker
    cur_frame_loss_labels,   \* per worker
    all_frames_loss_labels,  \* per worker: sum of the list
    all_frames_loss_bboxes,  \* per worker: sum of the list
    all_frames_num_fgs,      \* per worker: times world
    loss_dict,               \* per worker: the result of the call
    entries,                 \* per worker: all_reduce calls entered
    reduced                  \* the sums the collective delivered, one per round

critVars == <<dist, world, len_clip, cfg, loss_cls_weight, loss_reg_weight, c_pc, fid, frame_in, gt_cls,
              num_foreground, local_fg, frame_num_gt, cur_frame_loss_bboxes,
              cur_frame_loss_labels, all_frames_loss_labels, all_frames_loss_bboxes,
              all_frames_num_fgs, loss_dict, entries, reduced>>

VARIABLES
    \* ---- UCF_JHMDB_Dataset ----
    num_samples,      \* self.num_samples = len(self.file_names)
    dataset,          \* self.dataset: "ucf24" | "jhmdb21"
    is_train,         \* self.is_train
    ds_len_clip,      \* self.len_clip
    sampling_rate,    \* self.sampling_rate
    d_pc,             \* "idle" | "frames" | "annotation"
    d_result,         \* outcome of the last __getitem__: "none" | "returned" | an error
    index,            \* argument of __getitem__
    img_id,           \* key-frame id of the sample
    max_num,          \* frame count of the sample's video
    d_rate,           \* d: the frame step of this call
    loop_i,           \* i of the frame loop
    clip_ids,         \* img_id_temp of the frames loaded so far
    label_rows,       \* rows of the sample's annotation file ([label, x1, y1, x2, y2])
    target            \* target of pull_item

dataVars == <<num_samples, dataset, is_train, ds_len_clip, sampling_rate, d_pc,
              d_result, index, img_id, max_num, d_rate, loop_i, clip_ids,
              label_rows, target>>

VARIABLES
    \* ---- load_weight ----
    path_to_ckpt,           \* "none" or a checkpoint file
    model_state_dict,       \* model.state_dict(): parameter name -> shape
    checkpoint,             \* the "model" entry of the checkpoint file, as stored
    checkpoint_state_dict,  \* the dict load_weight works on: parameter name -> shape
    todo,                   \* list(checkpoint_state_dict.keys()) still to visit
    l_pc,                   \* "start" | "check" | "load" | "done"
    l_result,               \* "none" | "returned" | "RuntimeError"
    model_params            \* per parameter of the model: "init" or "ckpt"

loadVars == <<path_to_ckpt, model_state_dict, checkpoint, checkpoint_state_dict, todo, l_pc,
              l_result, model_params>>

VARIABLES
    \* ---- build_dataset ----
    args_dataset,     \* args.dataset
    args_eval,        \* args.eval
    b_is_train,       \* is_train
    cfg_len_clip,     \* d_cfg['len_clip']
    b_pc,             \* "start" | "dataset" | "evaluator" | "report" | "done"
    b_dataset,        \* local dataset: the class constructed and its arguments, or "unbound"
    b_evaluator,      \* local evaluator: the class constructed, "None", or "unbound"
    b_num_classes,    \* local num_classes, -1 while unbound
    b_result,         \* "none" | "returned" | "exit"
    exit_code         \* status handed to exit(), -1 while the process runs

buildVars == <<args_dataset, args_eval, b_is_train, cfg_len_clip, b_pc, b_dataset,
               b_evaluator, b_num_classes, b_result, exit_code>>

VARIABLES
    \* ---- AVA_Evaluator.get_ava_mini_groundtruth ----
    gt_file,            \* the three tables read_csv returned
    full_groundtruth,   \* self.full_groundtruth, the argument of the call
    ret,                \* ret
    mg_i,               \* i
    mg_keys,            \* keys of full_groundtruth[i] still to visit
    mg_pc,              \* "start" | "loop" | "done"
    mini_groundtruth    \* self.mini_groundtruth

miniVars == <<gt_file, full_groundtruth, ret, mg_i, mg_keys, mg_pc, mini_groundtruth>>

evalVars == <<testset, dets, out_classes, max_passes, all_preds, ev_pc, ev_result,
              iter_i, prev_video_id, initialization, inference_mode, invoked,
              handed, detections, passes>>

vars == <<evalVars, critVars, dataVars, loadVars, buildVars, miniVars>>

notEval == <<critVars, dataVars, loadVars, buildVars, miniVars>>
notCrit == <<evalVars, dataVars, loadVars, buildVars, miniVars>>
notData == <<evalVars, critVars, loadVars, buildVars, miniVars>>
notLoad == <<evalVars, critVars, dataVars, buildVars, miniVars>>
notBuild == <<evalVars, critVars, dataVars, loadVars, miniVars>>
notMini == <<evalVars, critVars, dataVars, loadVars, buildVars>>

\* ---------------------------------------------------------------------------
\* Bounds of the model
\* ---------------------------------------------------------------------------
MaxSamples == 2
MaxPasses == 2
MaxPending == 1
MaxClip == 2
NumWorkers == 2
MaxLenClip == 3
MaxImgId == 4
MaxFrames == 3
MaxRows == 2

\* ---------------------------------------------------------------------------
\* AVA_Evaluator
\* ---------------------------------------------------------------------------
video_idx_to_name == <<"video_a", "video_b">>
VideoIds == 0 .. (Len(video_idx_to_name) - 1)

\* DataLoader(batch_size=8, shuffle=False, drop_last=False)
batch_size == 8
\* assert len(cls_out) == 80
NumScores == 80
\* num_classes of the 'ava_pose' configuration
PoseClasses == 14

class_whitelist == {1, 3, 80}

\* handed[mode] is <<>> until a pass of that mode was scored, then <<buffer>>
NotRun == <<>>
Modes == {"stream", "clip"}

\* seconds of the samples: sample i (0-based) is at second SecOf(i)
SecOf(i) == 900 + i

Min(a, b) == IF a < b THEN a ELSE b
Max(a, b) == IF a > b THEN a ELSE b

RECURSIVE Concat(_)
Concat(ss) == IF ss = <<>> THEN <<>> ELSE Head(ss) \o Concat(Tail(ss))

\* One row of detector output for sample i (0-based), rank j: four box
\* coordinates followed by the class scores.
BBox(i, j) ==
    <<j, 10 + i, j + 5, 20 + i>> \o
    [c \in 1 .. out_classes |-> IF c = ((i + j) % out_classes) + 1 THEN 9 ELSE c % 2]

\* The detector's output for sample i: the same for either inference path.
ModelOut(i) == [j \in 1 .. dets[i + 1] |-> BBox(i, j)]

\* [[x1, y1, x2, y2], cls_out, [video_idx, sec]]
Record(bbox, key_frame_info) ==
    <<SubSeq(bbox, 1, 4), SubSeq(bbox, 5, Len(bbox)), key_frame_info>>

\* preds_list of one streaming step
StreamPreds(i) ==
    LET bboxes == ModelOut(i)
    IN  [j \in 1 .. Len(bboxes) |-> Record(bboxes[j], testset[i + 1])]

\* the testloader's batches: consecutive runs of batch_size samples, the last
\* one possibly shorter (drop_last=False)
\* (mutant) drop_last=True
NumBatchesDropLast(n) == n \div batch_size
NumBatches(n) == (n + batch_size - 1) \div batch_size
BatchSamples(k, n) ==
    [b \in 1 .. (Min((k + 1) * batch_size, n) - k * batch_size) |-> k * batch_size + b - 1]

\* preds_list of one batched step over batch k
BatchPreds(k) ==
    LET samples == BatchSamples(k, Len(testset))
    IN  Concat([bi \in 1 .. Len(samples) |->
                    LET out_bboxes == ModelOut(samples[bi])
                    IN  [j \in 1 .. Len(out_bboxes) |->
                            Record(out_bboxes[j], testset[samples[bi] + 1])]])

\* update_stats
update_stats(buf, preds) == buf \o preds

\* "%04d" % sec, as the sequence of its characters (sec >= 0)
RECURSIVE Digits(_)
Digits(n) == IF n < 10 THEN <<n>> ELSE Digits(n \div 10) \o <<n % 10>>
Fmt04(sec) ==
    LET ds == Digits(sec)
    IN  [k \in 1 .. (Max(4, Len(ds)) - Len(ds)) |-> 0] \o ds

\* the assertions of get_ava_eval_data and the lookup of the video name
EvalDataRaises(preds) ==
    \E i \in 1 .. Len(preds) :
        \/ Len(preds[i]) # 3
        \/ Len(preds[i][2]) # NumScores
        \/ (preds[i][3][1] + 1) \notin DOMAIN video_idx_to_name

\* a defaultdict(list) nothing was appended to
EmptyTable == [k \in {} |-> <<>>]

\* key = video + ',' + "%04d" % (sec)
EvalKey(pred) == <<video_idx_to_name[pred[3][1] + 1], Fmt04(pred[3][2])>>

\* (mutant) the inner loop appends for every class
EvalClassesUnfiltered(pred) ==
    LET b == pred[1]
        box == <<b[2], b[1], b[4], b[3]>>
    IN  [j \in 1 .. Len(pred[2]) |-> [box |-> box, label |-> j, score |-> pred[2][j]]]

\* the inner loop over the classes of one record: what it appends under the
\* record's key, in the order of the loop; kept lists cls_idx + 1 of the
\* iterations that pass the whitelist test
EvalClasses(pred) ==
    LET kept == SelectSeq([c \in 1 .. Len(pred[2]) |-> c],
                          LAMBDA c : c \in class_whitelist)
        b == pred[1]
        box == <<b[2], b[1], b[4], b[3]>>
    IN  [j \in 1 .. Len(kept) |->
            [box |-> box, label |-> kept[j], score |-> pred[2][kept[j]]]]

\* the outer loop over all_preds: what the appends leave under one key, the
\* records taken in buffer order
EvalRecords(preds, key) ==
    LET at == SelectSeq([i \in 1 .. Len(preds) |-> i],
                        LAMBDA i : EvalKey(preds[i]) = key)
    IN  Concat([j \in 1 .. Len(at) |-> EvalClasses(preds[at[j]])])

\* the three defaultdict(list) tables; a key exists once something was
\* appended under it
get_ava_eval_data(preds) ==
    LET keys == {EvalKey(preds[i]) :
                    i \in {i \in 1 .. Len(preds) : EvalClasses(preds[i]) # <<>>}}
    IN  [boxes  |-> [k \in keys |-> LET l == EvalRecords(preds, k)
                                    IN  [p \in 1 .. Len(l) |-> l[p].box]],
         labels |-> [k \in keys |-> LET l == EvalRecords(preds, k)
                                    IN  [p \in 1 .. Len(l) |-> l[p].label]],
         scores |-> [k \in keys |-> LET l == EvalRecords(preds, k)
                                    IN  [p \in 1 .. Len(l) |-> l[p].score]]]

Datasets(maxlen) ==
    UNION {[1 .. n -> VideoIds] : n \in 0 .. maxlen}

TypeKeyInfo(videos) == [i \in 1 .. Len(videos) |-> <<videos[i], SecOf(i - 1)>>]

InitEvalCommon ==
    /\ all_preds = <<>>
    /\ ev_pc = "idle"
    /\ ev_result = "none"
    /\ iter_i = 0
    /\ prev_video_id = ""
    /\ initialization = FALSE
    /\ inference_mode = "none"
    /\ invoked = <<>>
    /\ handed = [m \in Modes |-> NotRun]
    /\ detections = [m \in Modes |-> NotRun]
    /\ passes = 0

\* a dataset of one sample more than a batch holds, so that the loader
\* yields a full batch and a partial one
LongVideos == [i \in 1 .. (batch_size + 1) |-> (i - 1) % Len(video_idx_to_name)]
DetCountsEquiv == {0, 2}
DetCounts == {0, 1}

InitEquiv ==
    /\ testset = TypeKeyInfo(LongVideos)
    /\ dets \in [1 .. Len(LongVideos) -> DetCountsEquiv]
    /\ out_classes = NumScores
    /\ max_passes = Cardinality(Modes)
    /\ InitEvalCommon

InitEval ==
    /\ \E videos \in Datasets(MaxSamples) :
         /\ testset = TypeKeyInfo(videos)
         /\ dets \in [1 .. Len(videos) -> DetCounts]
    /\ out_classes \in {NumScores, PoseClasses}
    /\ max_passes = MaxPasses
    /\ InitEvalCommon

\* update_stats called by the evaluator's owner between passes, with the
\* records of the first sample that has any
UpdateStats ==
    /\ UNCHANGED notEval
    /\ ev_pc = "idle"
    /\ Len(all_preds) < MaxPending
    /\ \E i \in 0 .. (Len(testset) - 1) :
         /\ StreamPreds(i) # <<>>
         /\ \A j \in 0 .. (i - 1) : StreamPreds(j) = <<>>
         /\ all_preds' = update_stats(all_preds, StreamPreds(i))
    /\ UNCHANGED <<testset, dets, out_classes, max_passes, ev_pc, ev_result, iter_i,
                   prev_video_id, initialization, inference_mode, invoked, handed, detections,
                   passes>>

\* evaluate_frame_map_stream, up to the loop
StartStream ==
    /\ UNCHANGED notEval
    /\ ev_pc = "idle"
    /\ passes < max_passes
    /\ passes' = passes + 1
    /\ initialization' = TRUE
    /\ inference_mode' = "stream"
    /\ prev_video_id' = ""
    /\ iter_i' = 0
    /\ invoked' = <<>>
    /\ ev_result' = "none"
    /\ ev_pc' = "stream"
    /\ UNCHANGED <<testset, dets, out_classes, max_passes, all_preds, handed, detections>>

\* prev_video_id after the two tests at the head of the loop body
NextPrevVideoId(prev, video_id, it) ==
    LET p1 == IF it = 0 THEN video_id ELSE prev
    IN  IF video_id # p1 THEN video_id ELSE p1

\* (mutant) the signal is raised on the first sample only
NewVideoSignalFirstOnly(prev, video_id, it) == it = 0

\* whether the head of the loop body raises the new-video signal
NewVideoSignal(prev, video_id, it) ==
    \/ it = 0
    \/ video_id # (IF it = 0 THEN video_id ELSE prev)

\* one iteration of the streaming loop; the detector may or may not lower
\* model.initialization when it is invoked
StreamStep ==
    /\ UNCHANGED notEval
    /\ ev_pc = "stream"
    /\ iter_i < Len(testset)
    /\ LET key_frame_info == testset[iter_i + 1]
           init == initialization \/ NewVideoSignal(prev_video_id, key_frame_info[1], iter_i)
       IN  /\ prev_video_id' = NextPrevVideoId(prev_video_id, key_frame_info[1], iter_i)
           /\ invoked' = <<[sample |-> iter_i, before |-> initialization, init |-> init]>>
           /\ \E lowered \in BOOLEAN : initialization' = (init /\ ~lowered)
           /\ all_preds' = update_stats(all_preds, StreamPreds(iter_i))
    /\ iter_i' = iter_i + 1
    /\ UNCHANGED <<testset, dets, out_classes, max_passes, ev_pc, ev_result,
                   inference_mode, handed, detections, passes>>

\* (mutant) the pass returns without clearing the buffer
FinishPassKeepsBuffer(mode) ==
    IF EvalDataRaises(all_preds)
    THEN /\ ev_result' = "raised"
         /\ UNCHANGED <<all_preds, handed, detections>>
    ELSE /\ ev_result' = "returned"
         /\ handed' = [handed EXCEPT ![mode] = <<all_preds>>]
         /\ detections' = [detections EXCEPT ![mode] = <<get_ava_eval_data(all_preds)>>]
         /\ UNCHANGED all_preds

\* calculate_mAP, then the clearing of the buffer and the return
FinishPass(mode) ==
    IF EvalDataRaises(all_preds)
    THEN /\ ev_result' = "raised"
         /\ UNCHANGED <<all_preds, handed, detections>>
    ELSE /\ ev_result' = "returned"
         /\ handed' = [handed EXCEPT ![mode] = <<all_preds>>]
         /\ detections' = [detections EXCEPT ![mode] = <<get_ava_eval_data(all_preds)>>]
         /\ all_preds' = <<>>

StreamFinish ==
    /\ UNCHANGED notEval
    /\ ev_pc = "stream"
    /\ iter_i = Len(testset)
    /\ FinishPass("stream")
    /\ ev_pc' = "idle"
    /\ UNCHANGED <<testset, dets, out_classes, max_passes, iter_i, prev_video_id,
                   initialization, inference_mode, invoked, passes>>

\* evaluate_frame_map, up to the loop
StartBatch ==
    /\ UNCHANGED notEval
    /\ ev_pc = "idle"
    /\ passes < max_passes
    /\ passes' = passes + 1
    /\ inference_mode' = "clip"
    /\ iter_i' = 0
    /\ invoked' = <<>>
    /\ ev_result' = "none"
    /\ ev_pc' = "batch"
    /\ UNCHANGED <<testset, dets, out_classes, max_passes, all_preds, handed, detections,
                   prev_video_id, initialization>>

\* one iteration of the batched loop
BatchStep ==
    /\ UNCHANGED notEval
    /\ ev_pc = "batch"
    /\ iter_i < NumBatches(Len(testset))
    /\ all_preds' = update_stats(all_preds, BatchPreds(iter_i))
    /\ iter_i' = iter_i + 1
    /\ UNCHANGED <<testset, dets, out_classes, max_passes, ev_pc, ev_result,
                   prev_video_id, initialization, inference_mode, invoked, handed, detections,
                   passes>>

BatchFinish ==
    /\ UNCHANGED notEval
    /\ ev_pc = "batch"
    /\ iter_i = NumBatches(Len(testset))
    /\ FinishPass("clip")
    /\ ev_pc' = "idle"
    /\ UNCHANGED <<testset, dets, out_classes, max_passes, iter_i, prev_video_id,
                   initialization, inference_mode, invoked, passes>>

\* ---------------------------------------------------------------------------
\* Criterion
\* ---------------------------------------------------------------------------
\* prediction slots (anchors) of one batch sample, batch positions, classes
Anchors == {0, 1}
BatchIdx == {0, 1}
Classes == {0, 1}
M == Cardinality(Anchors)
B == Cardinality(BatchIdx)
num_classes == Cardinality(Classes)
Flat == 0 .. (B * M - 1)

\* IoU values, on a scale on which the thresholds igt and iou_t are integers
Levels == {0, 1}
Cfgs == {[igt |-> 0, iou_t |-> 1], [igt |-> -1, iou_t |-> 1]}

\* ground-truth objects of one sample in one frame, matches per sample
GtCounts == {0, 1}
MatchLens == {0, 1}

Workers == 1 .. world
NoFrame == "none"
NoLoss == "none"

Range(f) == {f[x] : x \in DOMAIN f}

RECURSIVE SeqSum(_)
SeqSum(q) == IF q = <<>> THEN 0 ELSE Head(q) + SeqSum(Tail(q))

\* The samples of one frame the data loader and the matcher can deliver:
\* labels of the N objects, the matcher's (src, tgt) index pairs, the IoU of
\* every predicted box with every object, and the IoU of the anchor with the
\* object for the matched pairs (the only entries of a_iou the code reads).
SamplesOf(n, lens) ==
    UNION {UNION {{[labels |-> ls, indices |-> ms, iou |-> i, a_iou |-> a] :
                        ls \in [1 .. n -> Classes],
                        i \in [Anchors \X (0 .. (n - 1)) -> Levels],
                        a \in [Range(ms) -> Levels]} :
                  ms \in [1 .. k -> Anchors \X (0 .. (n - 1))]} :
           k \in lens}
SamplesWith(n) == SamplesOf(n, MatchLens)
SampleInputs == UNION {SamplesWith(n) : n \in GtCounts}
FrameInputs == [1 .. B -> SampleInputs]

\* samples whose every object is matched once, to an anchor above iou_t, by a
\* prediction the ignore threshold does not touch
CleanSamples ==
    {s \in SampleInputs :
        /\ Len(s.indices) = Len(s.labels)
        /\ \A k \in 1 .. Len(s.indices) : s.indices[k][1] = 0 /\ s.a_iou[s.indices[k]] = 1
        /\ \A p \in DOMAIN s.iou : s.iou[p] = 0
        /\ \A k \in 1 .. Len(s.labels) : s.labels[k] = 0}
CleanFrames == [1 .. B -> CleanSamples]

\* samples of up to two objects and up to two matches, and the frames that
\* hold one of them next to a sample of the plain kind
RichGtCounts == {0, 1, 2}
RichMatchLens == {0, 1, 2}
RichSamples == UNION {SamplesOf(n, RichMatchLens) : n \in RichGtCounts}
RichFrames ==
    {<<r, c>> : r \in RichSamples, c \in CleanSamples}
        \cup {<<c, r>> : r \in RichSamples, c \in CleanSamples}

\* the frames a worker is fed
FramesFed == IF dist THEN CleanFrames ELSE FrameInputs

NumTgt(s) == Len(s.labels)

SetMax(S) == CHOOSE x \in S : \A y \in S : y <= x

\* (mutant) the guard never takes the zero-filled branch
IouNumelIsZeroNever(s) == FALSE

\* iou.numel() == 0, iou of shape [M, N]
IouNumelIsZero(s) == M * NumTgt(s) = 0

\* iou.max(dim=1) raises when the reduced dimension has size zero
MaxRaises(s) == ~IouNumelIsZero(s) /\ NumTgt(s) = 0

\* max_iou of one sample: iou.max(dim=1), zeros when iou has no element
max_iou(s) ==
    IF IouNumelIsZero(s)
    THEN [m \in Anchors |-> 0]
    ELSE [m \in Anchors |-> SetMax({s.iou[<<m, n>>] : n \in 0 .. (NumTgt(s) - 1)})]

\* pos_iou of one sample: a_iou[src_idx, tgt_idx], empty when a_iou has no element
pos_iou(s) ==
    IF M * NumTgt(s) = 0
    THEN <<>>
    ELSE [k \in 1 .. Len(s.indices) |-> s.a_iou[s.indices[k]]]

\* ious = torch.cat(ious), indexed by flat slot
ious(frame) ==
    LET per_sample == [b \in 1 .. B |-> max_iou(frame[b])]
    IN  [f \in Flat |-> per_sample[(f \div M) + 1][f % M]]

\* ignore_idx = ious > self.cfg['igt']
ignore_idx(frame, c) == LET v == ious(frame) IN {f \in Flat : v[f] > c.igt}

pos_ious(frame) == Concat([b \in 1 .. B |-> pos_iou(frame[b])])
\* pos_ignore_idx = pos_ious < self.cfg['iou_t']
pos_ignore_idx(frame, c) ==
    LET v == pos_ious(frame) IN {k \in 1 .. Len(v) : v[k] < c.iou_t}

\* src + idx * anchor_boxes_copy[0].shape[0]
FlatSrc(src, idx) == src + idx * M

src_idx(frame) ==
    Concat([b \in 1 .. B |->
              [k \in 1 .. Len(frame[b].indices) |-> FlatSrc(frame[b].indices[k][1], b - 1)]])

\* the matched (batch position, target) of every entry of src_idx
tgt_of(frame) ==
    Concat([b \in 1 .. B |->
              [k \in 1 .. Len(frame[b].indices) |-> <<b - 1, frame[b].indices[k][2]>>]])

\* (mutant) the labels of poorly matched targets are kept
tgt_cls_o_unmasked(frame, c) ==
    Concat([b \in 1 .. B |->
              [k \in 1 .. Len(frame[b].indices) |->
                   frame[b].labels[frame[b].indices[k][2] + 1]]])

\* tgt_cls_o, after tgt_cls_o[pos_ignore_idx] = -1
tgt_cls_o(frame, c) ==
    LET t == Concat([b \in 1 .. B |->
                       [k \in 1 .. Len(frame[b].indices) |->
                            frame[b].labels[frame[b].indices[k][2] + 1]]])
        ig == pos_ignore_idx(frame, c)
    IN  [k \in 1 .. Len(t) |-> IF k \in ig THEN -1 ELSE t[k]]

\* gt_cls before the scatter: background, -1 where ignored
gt_cls_base(frame, c) ==
    LET ig == ignore_idx(frame, c)
    IN  [f \in Flat |-> IF f \in ig THEN -1 ELSE num_classes]

\* gt_cls[src_idx] = tgt_cls_o: a slot written more than once holds any one of
\* the values written to it
RECURSIVE ScatterFrom(_, _, _, _)
ScatterFrom(base, idx, vals, f) ==
    IF f \notin DOMAIN base THEN {<<>>}
    ELSE LET writers == {k \in 1 .. Len(idx) : idx[k] = f}
             options == IF writers = {} THEN {base[f]} ELSE {vals[k] : k \in writers}
         IN  {<<o>> \o rest : o \in options, rest \in ScatterFrom(base, idx, vals, f + 1)}

\* the outcomes of the frame's class targets, indexed by flat slot
GtClsResults(frame, c) ==
    {[f \in Flat |-> g[f + 1]] :
        g \in ScatterFrom(gt_cls_base(frame, c), src_idx(frame), tgt_cls_o(frame, c), 0)}

foreground_idxs(g) == {f \in DOMAIN g : g[f] >= 0 /\ g[f] # num_classes}
valid_idxs(g) == {f \in DOMAIN g : g[f] >= 0}

\* (mutant) every matched pair is kept
BoxLossPairsUnfiltered(frame, c) ==
    LET src == src_idx(frame)
        tgt == tgt_of(frame)
    IN  [j \in 1 .. Len(src) |-> [src |-> src[j], tgt |-> tgt[j]]]

\* the (slot, target) pairs generalized_box_iou is taken of, after the
\* [~pos_ignore_idx] selections: torch.diag pairs row k with column k
BoxLossPairs(frame, c) ==
    LET src == src_idx(frame)
        tgt == tgt_of(frame)
        ig == pos_ignore_idx(frame, c)
        keep == SelectSeq([k \in 1 .. Len(src) |-> k], LAMBDA k : k \notin ig)
    IN  [j \in 1 .. Len(keep) |-> [src |-> src[keep[j]], tgt |-> tgt[keep[j]]]]

\* The loss kernels are numerical code outside the Criterion; every term
\* (1 - GIoU of a pair, the focal loss of a valid slot) counts as one unit.
GiouTerm(pair) == 1
FocalTerm(f, g) == 1

FrameLossBboxes(pairs) == SeqSum([j \in 1 .. Len(pairs) |-> GiouTerm(pairs[j])])
FrameLossLabels(g) == SeqSum([j \in 1 .. Cardinality(valid_idxs(g)) |-> 1])

\* utils.distributed_utils: whether a process group is available and
\* initialised, and the number of processes in it (1 without one)
is_dist_avail_and_initialized == dist
get_world_size == IF is_dist_avail_and_initialized THEN world ELSE 1

\* (mutant) no floor
ClampFgNoFloor(n, w) == n

\* (mutant) min=0
ClampFgFloorZero(n, w) == Max(n, 0)

\* torch.clamp(num_foreground / get_world_size(), min=1), times the world size
ClampFg(n, w) == Max(n, w)

InitCritCommon ==
    /\ c_pc = [w \in Workers |-> "match"]
    /\ fid = [w \in Workers |-> 0]
    /\ frame_in = [w \in Workers |-> NoFrame]
    /\ gt_cls = [w \in Workers |-> NoFrame]
    /\ num_foreground = [w \in Workers |-> 0]
    /\ local_fg = [w \in Workers |-> 0]
    /\ frame_num_gt = [w \in Workers |-> 0]
    /\ cur_frame_loss_bboxes = [w \in Workers |-> 0]
    /\ cur_frame_loss_labels = [w \in Workers |-> 0]
    /\ all_frames_loss_labels = [w \in Workers |-> 0]
    /\ all_frames_loss_bboxes = [w \in Workers |-> 0]
    /\ all_frames_num_fgs = [w \in Workers |-> 0]
    /\ loss_dict = [w \in Workers |-> NoLoss]
    /\ entries = [w \in Workers |-> 0]
    /\ reduced = <<>>

\* the default loss weights, and a pair of other ones
DefaultWeights == <<1, 1>>
WeightPairs == {DefaultWeights, <<2, 3>>}
WeightedClips == {1, 2}

\* a single process, no process group
InitCrit ==
    /\ dist = FALSE
    /\ world = 1
    /\ len_clip \in 1 .. MaxClip
    /\ cfg \in Cfgs
    /\ loss_cls_weight = DefaultWeights[1]
    /\ loss_reg_weight = DefaultWeights[2]
    /\ InitCritCommon

\* a single process, a clip of one frame
InitTargets ==
    /\ dist = FALSE
    /\ world = 1
    /\ len_clip = 1
    /\ cfg \in Cfgs
    /\ loss_cls_weight = DefaultWeights[1]
    /\ loss_reg_weight = DefaultWeights[2]
    /\ InitCritCommon

\* a single process, the loss weights as configured
InitCritWeighted ==
    /\ dist = FALSE
    /\ world = 1
    /\ len_clip \in WeightedClips
    /\ cfg \in Cfgs
    /\ \E ws \in WeightPairs : loss_cls_weight = ws[1] /\ loss_reg_weight = ws[2]
    /\ InitCritCommon

\* no Criterion call
InitCritIdle ==
    /\ dist = FALSE
    /\ world = 1
    /\ len_clip = 0
    /\ cfg = [igt |-> 0, iou_t |-> 1]
    /\ loss_cls_weight = DefaultWeights[1]
    /\ loss_reg_weight = DefaultWeights[2]
    /\ InitCritCommon

\* clip lengths of the data-parallel runs
DistClips == {1, 2}

\* data-parallel training: NumWorkers processes in one process group
InitDist ==
    /\ dist = TRUE
    /\ world = NumWorkers
    /\ len_clip \in DistClips
    /\ cfg \in Cfgs
    /\ loss_cls_weight = DefaultWeights[1]
    /\ loss_reg_weight = DefaultWeights[2]
    /\ InitCritCommon

\* lines 66-133 of one loop iteration: matching and class targets of frame
\* fid, the frame drawn from frames
FrameMatchFrom(w, frames) ==
    /\ c_pc[w] = "match"
    /\ fid[w] < len_clip
    /\ \E frame \in frames :
         /\ frame_in' = [frame_in EXCEPT ![w] = frame]
         /\ frame_num_gt' = [frame_num_gt EXCEPT ![w] = SeqSum([b \in 1 .. B |-> NumTgt(frame[b])])]
         /\ IF \E b \in 1 .. B : MaxRaises(frame[b])
            THEN /\ c_pc' = [c_pc EXCEPT ![w] = "raised"]
                 /\ UNCHANGED <<gt_cls, num_foreground, local_fg>>
            ELSE /\ c_pc' = [c_pc EXCEPT ![w] = "sync"]
                 /\ \E g \in GtClsResults(frame, cfg) :
                      LET nfg == Cardinality(foreground_idxs(g))
                      IN  /\ gt_cls' = [gt_cls EXCEPT ![w] = g]
                          /\ num_foreground' = [num_foreground EXCEPT ![w] = nfg]
                          /\ local_fg' = [local_fg EXCEPT ![w] = nfg]
    /\ UNCHANGED <<dist, world, len_clip, cfg, loss_cls_weight, loss_reg_weight, fid, cur_frame_loss_bboxes,
                   cur_frame_loss_labels, all_frames_loss_labels, all_frames_loss_bboxes,
                   all_frames_num_fgs, loss_dict, entries, reduced>>
    /\ UNCHANGED notCrit

FrameMatch(w) == FrameMatchFrom(w, FramesFed)

\* the same on a frame with several objects and matches per sample
FrameMatchRich(w) == FrameMatchFrom(w, RichFrames)

\* (mutant) the collective is called without the capability check
CallsAllReduceUnguarded(w) == TRUE

\* (mutant) the collective is skipped for a frame without ground truth
CallsAllReduceIfGt(w) == dist /\ frame_num_gt[w] > 0

\* line 136: whether the worker calls the collective for this frame
CallsAllReduce(w) == is_dist_avail_and_initialized

\* lines 136-137: with a process group the worker enters
\* torch.distributed.all_reduce and blocks; without one the call is skipped
SyncPoint(w) ==
    /\ c_pc[w] = "sync"
    /\ IF CallsAllReduce(w)
       THEN /\ entries' = [entries EXCEPT ![w] = @ + 1]
            /\ c_pc' = [c_pc EXCEPT ![w] = "wait"]
       ELSE /\ c_pc' = [c_pc EXCEPT ![w] = "loss"]
            /\ UNCHANGED entries
    /\ UNCHANGED <<dist, world, len_clip, cfg, loss_cls_weight, loss_reg_weight, fid, frame_in, gt_cls,
                   num_foreground, local_fg, frame_num_gt, cur_frame_loss_bboxes,
                   cur_frame_loss_labels, all_frames_loss_labels, all_frames_loss_bboxes,
                   all_frames_num_fgs, loss_dict, reduced>>
    /\ UNCHANGED notCrit

\* the collective completes once every worker of the group has entered it:
\* each one's num_foreground becomes the sum
AllReduceComplete ==
    /\ \A w \in Workers : c_pc[w] = "wait"
    /\ LET total == SeqSum([w \in Workers |-> num_foreground[w]])
       IN  /\ num_foreground' = [w \in Workers |-> total]
           /\ reduced' = Append(reduced, total)
    /\ c_pc' = [w \in Workers |-> "loss"]
    /\ UNCHANGED <<dist, world, len_clip, cfg, loss_cls_weight, loss_reg_weight, fid, frame_in, gt_cls,
                   local_fg, frame_num_gt, cur_frame_loss_bboxes,
                   cur_frame_loss_labels, all_frames_loss_labels, all_frames_loss_bboxes,
                   all_frames_num_fgs, loss_dict, entries>>
    /\ UNCHANGED notCrit

\* lines 138-165: normaliser and losses of the frame; the frame's tensors are
\* rebound by the next iteration
FrameLoss(w) ==
    /\ c_pc[w] = "loss"
    /\ LET nf == ClampFg(num_foreground[w], get_world_size)
           pairs == BoxLossPairs(frame_in[w], cfg)
       IN  /\ num_foreground' = [num_foreground EXCEPT ![w] = nf]
           /\ all_frames_num_fgs' = [all_frames_num_fgs EXCEPT ![w] = @ + nf]
           /\ cur_frame_loss_labels' = [cur_frame_loss_labels EXCEPT ![w] = FrameLossLabels(gt_cls[w])]
           /\ all_frames_loss_labels' = [all_frames_loss_labels EXCEPT ![w] = @ + FrameLossLabels(gt_cls[w])]
           /\ cur_frame_loss_bboxes' = [cur_frame_loss_bboxes EXCEPT ![w] = FrameLossBboxes(pairs)]
           /\ all_frames_loss_bboxes' = [all_frames_loss_bboxes EXCEPT ![w] = @ + FrameLossBboxes(pairs)]
    /\ frame_in' = [frame_in EXCEPT ![w] = NoFrame]
    /\ gt_cls' = [gt_cls EXCEPT ![w] = NoFrame]
    /\ fid' = [fid EXCEPT ![w] = @ + 1]
    /\ c_pc' = [c_pc EXCEPT ![w] = IF fid[w] + 1 < len_clip THEN "match" ELSE "finish"]
    /\ UNCHANGED <<dist, world, len_clip, cfg, loss_cls_weight, loss_reg_weight, local_fg, frame_num_gt,
                   loss_dict, entries, reduced>>
    /\ UNCHANGED notCrit

\* (mutant) the two weights exchanged
WeightedSumSwapped(wc, a, wr, b) == wr * a + wc * b

\* lines 170-171: the numerator of losses over the common divisor
WeightedSum(wc, a, wr, b) == wc * a + wr * b

\* lines 167-179: the clip's losses, as numerator and divisor (the divisor
\* times the world size)
Finish(w) ==
    /\ c_pc[w] = "finish"
    /\ loss_dict' = [loss_dict EXCEPT ![w] =
                        [loss_labels |-> <<all_frames_loss_labels[w], all_frames_num_fgs[w]>>,
                         loss_bboxes |-> <<all_frames_loss_bboxes[w], all_frames_num_fgs[w]>>,
                         losses |-> <<WeightedSum(loss_cls_weight, all_frames_loss_labels[w],
                                                  loss_reg_weight, all_frames_loss_bboxes[w]),
                                      all_frames_num_fgs[w]>>]]
    /\ c_pc' = [c_pc EXCEPT ![w] = "done"]
    /\ UNCHANGED <<dist, world, len_clip, cfg, loss_cls_weight, loss_reg_weight, fid, frame_in, gt_cls,
                   num_foreground, local_fg, frame_num_gt, cur_frame_loss_bboxes,
                   cur_frame_loss_labels, all_frames_loss_labels, all_frames_loss_bboxes,
                   all_frames_num_fgs, entries, reduced>>
    /\ UNCHANGED notCrit

NextCrit ==
    \/ \E w \in Workers : FrameMatch(w)
    \/ \E w \in Workers : SyncPoint(w)
    \/ \E w \in Workers : FrameLoss(w)
    \/ \E w \in Workers : Finish(w)

NextTargets ==
    \/ \E w \in Workers : FrameMatchRich(w)
    \/ \E w \in Workers : SyncPoint(w)
    \/ \E w \in Workers : FrameLoss(w)
    \/ \E w \in Workers : Finish(w)

NextDist ==
    \/ \E w \in Workers : FrameMatch(w)
    \/ \E w \in Workers : SyncPoint(w)
    \/ AllReduceComplete
    \/ \E w \in Workers : FrameLoss(w)
    \/ \E w \in Workers : Finish(w)

\* ---------------------------------------------------------------------------
\* UCF_JHMDB_Dataset
\* ---------------------------------------------------------------------------
NoTarget == [kind |-> "None"]

\* the rows np.loadtxt reads from an annotation file of n lines
AnnotationRows(n) == [r \in 1 .. n |-> <<1 + (r % 2), r, r, r + 1, r + 1>>]

\* (mutant) no test against max_num
FrameIdNoUpperClamp(id, i, d, maxn) ==
    LET t == id - i * d
    IN  IF t < 1 THEN 1 ELSE t

\* img_id_temp of loop index i
FrameId(id, i, d, maxn) ==
    LET t == id - i * d
    IN  IF t < 1 THEN 1 ELSE IF t > maxn THEN maxn ELSE t

\* lines 112-115: the annotation as loaded
LoadTarget(rows) == IF Len(rows) # 0 THEN [kind |-> "array", rows |-> rows] ELSE NoTarget

\* lines 117-132: [label, x1, y1, x2, y2] -> boxes and zero-based labels
FormatTarget(t) ==
    [kind   |-> "target",
     boxes  |-> [r \in 1 .. Len(t) |-> SubSeq(t[r], 2, 5)],
     labels |-> [r \in 1 .. Len(t) |-> t[r][1] - 1]]

InitDataCommon ==
    /\ d_pc = "idle"
    /\ d_result = "none"
    /\ index = 0
    /\ img_id = 0
    /\ max_num = 0
    /\ d_rate = 0
    /\ loop_i = 0
    /\ clip_ids = <<>>
    /\ label_rows = <<>>
    /\ target = NoTarget

\* sizes of the file list and the evaluation sampling rates
FileCounts == {1, 2}
SamplingRates == {1, 2}

InitData ==
    /\ num_samples \in FileCounts
    /\ dataset \in {"ucf24", "jhmdb21"}
    /\ is_train \in BOOLEAN
    /\ ds_len_clip \in 1 .. MaxLenClip
    /\ sampling_rate \in SamplingRates
    /\ InitDataCommon

InitDataIdle ==
    /\ num_samples = 0
    /\ dataset = "ucf24"
    /\ is_train = FALSE
    /\ ds_len_clip = 0
    /\ sampling_rate = 1
    /\ InitDataCommon

\* __getitem__ with an index its assertion rejects
GetItemRejected ==
    /\ d_pc = "idle"
    /\ \E ix \in 0 .. (num_samples + 1) :
         /\ ~(ix <= num_samples)
         /\ index' = ix
    /\ d_result' = "AssertionError"
    /\ UNCHANGED <<num_samples, dataset, is_train, ds_len_clip, sampling_rate, d_pc,
                   img_id, max_num, d_rate, loop_i, clip_ids, label_rows, target>>
    /\ UNCHANGED notData

\* __getitem__ with an index past the end of file_names
GetItemIndexError ==
    /\ d_pc = "idle"
    /\ \E ix \in 0 .. (num_samples + 1) :
         /\ ix <= num_samples
         /\ ~(ix < num_samples)
         /\ index' = ix
    /\ d_result' = "IndexError"
    /\ UNCHANGED <<num_samples, dataset, is_train, ds_len_clip, sampling_rate, d_pc,
                   img_id, max_num, d_rate, loop_i, clip_ids, label_rows, target>>
    /\ UNCHANGED notData

\* __getitem__ and lines 67-90 of pull_item: the sample's key frame, the
\* files of its video folder, its annotation file and the frame step
GetItem ==
    /\ d_pc = "idle"
    /\ \E ix \in 0 .. (num_samples + 1) :
         /\ ix <= num_samples
         /\ ix < num_samples
         /\ index' = ix
    /\ img_id' \in 1 .. MaxImgId
    /\ \E n_files \in 1 .. MaxFrames :
         max_num' = IF dataset = "ucf24" THEN n_files ELSE n_files - 1
    /\ d_rate' \in (IF is_train THEN 1 .. 2 ELSE {sampling_rate})
    /\ \E n \in 0 .. MaxRows : label_rows' = AnnotationRows(n)
    /\ loop_i' = ds_len_clip - 1
    /\ clip_ids' = <<>>
    /\ target' = NoTarget
    /\ d_result' = "none"
    /\ d_pc' = "frames"
    /\ UNCHANGED <<num_samples, dataset, is_train, ds_len_clip, sampling_rate>>
    /\ UNCHANGED notData

\* one iteration of the frame loop (lines 91-109)
LoadFrame ==
    /\ d_pc = "frames"
    /\ loop_i >= 0
    /\ clip_ids' = Append(clip_ids, FrameId(img_id, loop_i, d_rate, max_num))
    /\ loop_i' = loop_i - 1
    /\ UNCHANGED <<num_samples, dataset, is_train, ds_len_clip, sampling_rate, d_pc,
                   d_result, index, img_id, max_num, d_rate, label_rows, target>>
    /\ UNCHANGED notData

\* lines 111-134: the annotation, its reformatting and the return; indexing
\* target when it is None raises TypeError
LoadAnnotation ==
    /\ d_pc = "frames"
    /\ loop_i < 0
    /\ LET t == LoadTarget(label_rows)
       IN  IF t.kind = "None"
           THEN /\ target' = t
                /\ d_result' = "TypeError"
           ELSE /\ target' = FormatTarget(t.rows)
                /\ d_result' = "returned"
    /\ d_pc' = "idle"
    /\ UNCHANGED <<num_samples, dataset, is_train, ds_len_clip, sampling_rate,
                   index, img_id, max_num, d_rate, loop_i, clip_ids, label_rows>>
    /\ UNCHANGED notData

NextData ==
    \/ GetItemRejected
    \/ GetItemIndexError
    \/ GetItem
    \/ LoadFrame
    \/ LoadAnnotation

\* ---------------------------------------------------------------------------
\* load_weight
\* ---------------------------------------------------------------------------
ParamNames == {"conv.weight", "head.weight"}
Shapes == {<<2>>, <<3>>}
StateDicts == UNION {[ks -> Shapes] : ks \in SUBSET ParamNames}

\* the order of list(checkpoint_state_dict.keys())
RECURSIVE KeyList(_)
KeyList(ks) ==
    IF ks = {} THEN <<>>
    ELSE LET k == CHOOSE x \in ks : TRUE IN <<k>> \o KeyList(ks \ {k})

Pop(sd, k) == [x \in (DOMAIN sd) \ {k} |-> sd[x]]

\* the body of the check loop for key k (lines 193-200)
CheckedStateDict(ckpt, mdl, k) ==
    IF k \in DOMAIN mdl
    THEN IF mdl[k] # ckpt[k] THEN Pop(ckpt, k) ELSE ckpt
    ELSE Pop(ckpt, k)

\* torch.nn.Module.load_state_dict(state_dict), strict: what it reports
MissingKeys(mdl, sd) == (DOMAIN mdl) \ (DOMAIN sd)
UnexpectedKeys(mdl, sd) == (DOMAIN sd) \ (DOMAIN mdl)
SizeMismatch(mdl, sd) == {k \in (DOMAIN mdl) \cap (DOMAIN sd) : mdl[k] # sd[k]}
LoadStateDictRaises(mdl, sd) ==
    \/ MissingKeys(mdl, sd) # {}
    \/ UnexpectedKeys(mdl, sd) # {}
    \/ SizeMismatch(mdl, sd) # {}
\* the parameters it copies
Copied(mdl, sd) == ((DOMAIN mdl) \cap (DOMAIN sd)) \ SizeMismatch(mdl, sd)

InitLoadCommon ==
    /\ todo = <<>>
    /\ l_pc = "start"
    /\ l_result = "none"
    /\ model_params = [k \in DOMAIN model_state_dict |-> "init"]

InitLoad ==
    /\ path_to_ckpt \in {"none", "ckpt.pth"}
    /\ model_state_dict \in StateDicts
    /\ checkpoint \in StateDicts
    /\ checkpoint_state_dict = [k \in {} |-> <<>>]
    /\ InitLoadCommon

InitLoadIdle ==
    /\ path_to_ckpt = "none"
    /\ model_state_dict = [k \in {} |-> <<>>]
    /\ checkpoint = [k \in {} |-> <<>>]
    /\ checkpoint_state_dict = [k \in {} |-> <<>>]
    /\ InitLoadCommon

\* lines 182-184
LoadNoCheckpoint ==
    /\ l_pc = "start"
    /\ path_to_ckpt = "none"
    /\ l_result' = "returned"
    /\ l_pc' = "done"
    /\ UNCHANGED <<path_to_ckpt, model_state_dict, checkpoint, checkpoint_state_dict, todo,
                   model_params>>
    /\ UNCHANGED notLoad

\* lines 186-192
LoadCheckpoint ==
    /\ l_pc = "start"
    /\ path_to_ckpt # "none"
    /\ checkpoint_state_dict' = checkpoint
    /\ todo' = KeyList(DOMAIN checkpoint)
    /\ l_pc' = "check"
    /\ UNCHANGED <<path_to_ckpt, model_state_dict, checkpoint, l_result, model_params>>
    /\ UNCHANGED notLoad

\* one iteration of the check loop
CheckKey ==
    /\ l_pc = "check"
    /\ todo # <<>>
    /\ checkpoint_state_dict' = CheckedStateDict(checkpoint_state_dict, model_state_dict, Head(todo))
    /\ todo' = Tail(todo)
    /\ UNCHANGED <<path_to_ckpt, model_state_dict, checkpoint, l_pc, l_result, model_params>>
    /\ UNCHANGED notLoad

\* lines 202-205
LoadStateDict ==
    /\ l_pc = "check"
    /\ todo = <<>>
    /\ model_params' = [k \in DOMAIN model_params |->
                          IF k \in Copied(model_state_dict, checkpoint_state_dict)
                          THEN "ckpt" ELSE model_params[k]]
    /\ l_result' = IF LoadStateDictRaises(model_state_dict, checkpoint_state_dict)
                   THEN "RuntimeError" ELSE "returned"
    /\ l_pc' = "done"
    /\ UNCHANGED <<path_to_ckpt, model_state_dict, checkpoint, checkpoint_state_dict, todo>>
    /\ UNCHANGED notLoad

NextLoad ==
    \/ LoadNoCheckpoint
    \/ LoadCheckpoint
    \/ CheckKey
    \/ LoadStateDict

\* ---------------------------------------------------------------------------
\* build_dataset
\* ---------------------------------------------------------------------------
Unbound == "unbound"

\* names a configuration may carry: the five the function knows and others
DatasetNames == {"ucf24", "jhmdb21", "ava_v2.1", "ava_v2.2", "ava_pose", "ucf101", ""}
ClipLengths == {8, 16}

\* the tests of the if / elif chain (lines 39, 66, 91, 116)
BranchOf(name) ==
    IF name \in {"ucf24", "jhmdb21"} THEN "ucf_jhmdb"
    ELSE IF name = "ava_v2.1" THEN "ava_v2.1"
    ELSE IF name = "ava_v2.2" THEN "ava_v2.2"
    ELSE IF name = "ava_pose" THEN "ava_pose"
    ELSE "else"

\* (mutant) the chain has no else branch
TakesElseNever(name) == FALSE

\* whether the else branch (lines 141-143) is taken
TakesElse(name) == BranchOf(name) = "else"

\* the dataset each branch constructs
DatasetOf(name, train, clip) ==
    IF BranchOf(name) = "ucf_jhmdb"
    THEN [class |-> "UCF_JHMDB_Dataset", dataset |-> name, is_train |-> train, len_clip |-> clip]
    ELSE IF BranchOf(name) = "ava_pose"
    THEN [class |-> "AVA_Pose_Dataset", dataset |-> name, is_train |-> TRUE, len_clip |-> clip]
    ELSE [class |-> "AVA_Dataset", dataset |-> name, is_train |-> TRUE, len_clip |-> clip]

\* num_classes of each branch; UCF_JHMDB_Dataset.num_classes is 24 or 21
NumClassesOf(name) ==
    IF name = "ucf24" THEN 24
    ELSE IF name = "jhmdb21" THEN 21
    ELSE IF name = "ava_pose" THEN PoseClasses
    ELSE NumScores

\* the evaluator each branch constructs
EvaluatorOf(name) ==
    IF BranchOf(name) = "ucf_jhmdb" THEN [class |-> "UCF_JHMDB_Evaluator", version |-> name]
    ELSE IF name = "ava_v2.1" THEN [class |-> "AVA_Evaluator", version |-> "v2.1"]
    ELSE IF name = "ava_v2.2" THEN [class |-> "AVA_Evaluator", version |-> "v2.2"]
    ELSE [class |-> "AVA_Evaluator", version |-> "pose"]

InitBuildCommon ==
    /\ b_pc = "start"
    /\ b_dataset = Unbound
    /\ b_evaluator = Unbound
    /\ b_num_classes = -1
    /\ b_result = "none"
    /\ exit_code = -1

InitBuild ==
    /\ args_dataset \in DatasetNames
    /\ args_eval \in BOOLEAN
    /\ b_is_train \in BOOLEAN
    /\ cfg_len_clip \in ClipLengths
    /\ InitBuildCommon

InitBuildIdle ==
    /\ args_dataset = ""
    /\ args_eval = FALSE
    /\ b_is_train = FALSE
    /\ cfg_len_clip = 0
    /\ InitBuildCommon

\* lines 22-39: the transforms, then the branch is chosen
BuildTransforms ==
    /\ b_pc = "start"
    /\ b_pc' = IF TakesElse(args_dataset) THEN "else" ELSE "dataset"
    /\ UNCHANGED <<args_dataset, args_eval, b_is_train, cfg_len_clip, b_dataset,
                   b_evaluator, b_num_classes, b_result, exit_code>>
    /\ UNCHANGED notBuild

\* the dataset and num_classes of the branch taken
BuildConstructDataset ==
    /\ b_pc = "dataset"
    /\ b_dataset' = DatasetOf(args_dataset, b_is_train, cfg_len_clip)
    /\ b_num_classes' = NumClassesOf(args_dataset)
    /\ b_pc' = "evaluator"
    /\ UNCHANGED <<args_dataset, args_eval, b_is_train, cfg_len_clip, b_evaluator,
                   b_result, exit_code>>
    /\ UNCHANGED notBuild

\* the evaluator of the branch taken
BuildConstructEvaluator ==
    /\ b_pc = "evaluator"
    /\ b_evaluator' = EvaluatorOf(args_dataset)
    /\ b_pc' = "report"
    /\ UNCHANGED <<args_dataset, args_eval, b_is_train, cfg_len_clip, b_dataset,
                   b_num_classes, b_result, exit_code>>
    /\ UNCHANGED notBuild

\* lines 141-143: print('unknow dataset !!'); exit(0)
BuildExit ==
    /\ b_pc = "else"
    /\ b_result' = "exit"
    /\ exit_code' = 0
    /\ b_pc' = "done"
    /\ UNCHANGED <<args_dataset, args_eval, b_is_train, cfg_len_clip, b_dataset,
                   b_evaluator, b_num_classes>>
    /\ UNCHANGED notBuild

\* lines 145-152: the report, evaluator = None unless args.eval, the return
BuildReturn ==
    /\ b_pc = "report"
    /\ b_evaluator' = IF ~args_eval THEN [class |-> "None"] ELSE b_evaluator
    /\ b_result' = "returned"
    /\ b_pc' = "done"
    /\ UNCHANGED <<args_dataset, args_eval, b_is_train, cfg_len_clip, b_dataset,
                   b_num_classes, exit_code>>
    /\ UNCHANGED notBuild

NextBuild ==
    \/ BuildTransforms
    \/ BuildConstructDataset
    \/ BuildConstructEvaluator
    \/ BuildExit
    \/ BuildReturn

\* ---------------------------------------------------------------------------
\* AVA_Evaluator.get_ava_mini_groundtruth
\* ---------------------------------------------------------------------------
\* seconds of the ground-truth rows
GtSecs == {0, 902, 904, 1000}
GtVideos == {"video_a", "video_b"}

\* the keys read_csv builds: video name, ',' and "%04d" % sec
GtKey(video, sec) == <<video, Fmt04(sec)>>
GtKeys == {GtKey(v, sec) : v \in GtVideos, sec \in GtSecs}

\* the three tables (boxes, labels, scores) over one set of keys; the entry
\* of a key in table i is a list that names the table and the key
GtTables(keys) == [i \in 0 .. 2 |-> [k \in keys |-> <<<<i, k>>>>]]

\* int(s) of a string of decimal digits
RECURSIVE ParseInt(_)
ParseInt(ds) ==
    IF ds = <<>> THEN 0 ELSE 10 * ParseInt(SubSeq(ds, 1, Len(ds) - 1)) + ds[Len(ds)]

\* (mutant) second % 2 == 0
KeepsKeyEven(key) == ParseInt(key[2]) % 2 = 0

\* line 99: int(key.split(",")[1]) % 4 == 0
KeepsKey(key) == ParseInt(key[2]) % 4 = 0

\* full_groundtruth[i].keys(), in the table's order
RECURSIVE KeysOf(_)
KeysOf(ks) ==
    IF ks = {} THEN <<>>
    ELSE LET k == CHOOSE x \in ks : TRUE IN <<k>> \o KeysOf(ks \ {k})

InitMiniCommon ==
    /\ full_groundtruth = gt_file
    /\ ret = <<>>
    /\ mg_i = 0
    /\ mg_keys = <<>>
    /\ mg_pc = "start"
    /\ mini_groundtruth = <<>>

InitMini ==
    /\ \E keys \in SUBSET GtKeys : gt_file = GtTables(keys)
    /\ InitMiniCommon

InitMiniIdle ==
    /\ gt_file = GtTables({})
    /\ InitMiniCommon

\* line 95 and the head of the loop over i
MiniStart ==
    /\ mg_pc = "start"
    /\ ret' = [i \in 0 .. 2 |-> EmptyTable]
    /\ mg_i' = 0
    /\ mg_keys' = KeysOf(DOMAIN full_groundtruth[0])
    /\ mg_pc' = "loop"
    /\ UNCHANGED <<gt_file, full_groundtruth, mini_groundtruth>>
    /\ UNCHANGED notMini

\* lines 98-100: one key of table i
MiniKey ==
    /\ mg_pc = "loop"
    /\ mg_keys # <<>>
    /\ LET key == Head(mg_keys)
       IN  ret' = IF KeepsKey(key)
                  THEN [ret EXCEPT ![mg_i] =
                          [k \in (DOMAIN ret[mg_i]) \cup {key} |->
                              IF k = key THEN full_groundtruth[mg_i][key] ELSE ret[mg_i][k]]]
                  ELSE ret
    /\ mg_keys' = Tail(mg_keys)
    /\ UNCHANGED <<gt_file, full_groundtruth, mg_i, mg_pc, mini_groundtruth>>
    /\ UNCHANGED notMini

\* line 97: the next table
MiniNextTable ==
    /\ mg_pc = "loop"
    /\ mg_keys = <<>>
    /\ mg_i < 2
    /\ mg_i' = mg_i + 1
    /\ mg_keys' = KeysOf(DOMAIN full_groundtruth[mg_i + 1])
    /\ UNCHANGED <<gt_file, full_groundtruth, ret, mg_pc, mini_groundtruth>>
    /\ UNCHANGED notMini

\* line 101, and line 49: self.mini_groundtruth = the result
MiniReturn ==
    /\ mg_pc = "loop"
    /\ mg_keys = <<>>
    /\ mg_i = 2
    /\ mini_groundtruth' = ret
    /\ mg_pc' = "done"
    /\ UNCHANGED <<gt_file, full_groundtruth, ret, mg_i, mg_keys>>
    /\ UNCHANGED notMini

NextMini ==
    \/ MiniStart
    \/ MiniKey
    \/ MiniNextTable
    \/ MiniReturn

NextEquiv ==
    \/ StartStream
    \/ StreamStep
    \/ StreamFinish
    \/ StartBatch
    \/ BatchStep
    \/ BatchFinish

NextEval ==
    \/ UpdateStats
    \/ StartStream
    \/ StreamStep
    \/ StreamFinish
    \/ StartBatch
    \/ BatchStep
    \/ BatchFinish

InitEvalIdle ==
    /\ testset = <<>>
    /\ dets = <<>>
    /\ out_classes = NumScores
    /\ max_passes = 0
    /\ InitEvalCommon

\* a streaming pass and a batched pass over the same long dataset
InitSpecEquiv == InitEquiv /\ InitCritIdle /\ InitDataIdle /\ InitLoadIdle /\ InitBuildIdle /\ InitMiniIdle
SpecEquiv == InitSpecEquiv /\ [][NextEquiv]_vars

\* the evaluator alone
InitSpecEval == InitEval /\ InitCritIdle /\ InitDataIdle /\ InitLoadIdle /\ InitBuildIdle /\ InitMiniIdle
SpecEval == InitSpecEval /\ [][NextEval]_vars

\* one Criterion call in a single process
InitSpecCrit == InitCrit /\ InitEvalIdle /\ InitDataIdle /\ InitLoadIdle /\ InitBuildIdle /\ InitMiniIdle
SpecCrit == InitSpecCrit /\ [][NextCrit]_vars

\* one Criterion call in every worker of a process group
InitSpecDist == InitDist /\ InitEvalIdle /\ InitDataIdle /\ InitLoadIdle /\ InitBuildIdle /\ InitMiniIdle
SpecDist == InitSpecDist /\ [][NextDist]_vars

\* __getitem__ calls on one dataset
InitSpecData == InitData /\ InitEvalIdle /\ InitCritIdle /\ InitLoadIdle /\ InitBuildIdle /\ InitMiniIdle
SpecData == InitSpecData /\ [][NextData]_vars

\* one load_weight call
InitSpecLoad == InitLoad /\ InitEvalIdle /\ InitCritIdle /\ InitDataIdle /\ InitBuildIdle /\ InitMiniIdle
SpecLoad == InitSpecLoad /\ [][NextLoad]_vars

\* one Criterion call in a single process, with configured loss weights
InitSpecCritWeighted ==
    /\ InitCritWeighted /\ InitEvalIdle /\ InitDataIdle /\ InitLoadIdle /\ InitBuildIdle
    /\ InitMiniIdle
SpecCritWeighted == InitSpecCritWeighted /\ [][NextCrit]_vars

\* one Criterion call on a frame with several objects and matches per sample
InitSpecTargets ==
    /\ InitTargets /\ InitEvalIdle /\ InitDataIdle /\ InitLoadIdle /\ InitBuildIdle
    /\ InitMiniIdle
SpecTargets == InitSpecTargets /\ [][NextTargets]_vars

\* one build_dataset call
InitSpecBuild == InitBuild /\ InitEvalIdle /\ InitCritIdle /\ InitDataIdle /\ InitLoadIdle /\ InitMiniIdle
SpecBuild == InitSpecBuild /\ [][NextBuild]_vars

\* one get_ava_mini_groundtruth call
InitSpecMini ==
    InitMini /\ InitEvalIdle /\ InitCritIdle /\ InitDataIdle /\ InitLoadIdle /\ InitBuildIdle
SpecMini == InitSpecMini /\ [][NextMini]_vars

\* ---------------------------------------------------------------------------
\* Properties
\* ---------------------------------------------------------------------------

\* C1: whenever evaluate_frame_map or evaluate_frame_map_stream returns, the
\* buffer all_preds is empty, whatever the pass appended and whatever the
\* buffer held when the pass started, after any sequence of passes.
C1_BufferEmptyAfterPass ==
    [][(ev_pc # "idle" /\ ev_pc' = "idle" /\ ev_result' = "returned") => all_preds' = <<>>]_vars

\* a second pass has returned after scoring more records than it appended
\* itself: the buffer was not empty when it started
C1_Witness ==
    /\ ev_pc = "idle"
    /\ ev_result = "returned"
    /\ passes = MaxPasses
    /\ all_preds = <<>>
    /\ handed[inference_mode] # NotRun
    /\ SeqSum(dets) > 0
    /\ Len(handed[inference_mode][1]) > SeqSum(dets)

\* C2: over the same samples and the same detections, the streaming pass and
\* the batched pass hand calculate_mAP the same sequence of records.
C2_SameRecordsHanded ==
    (handed["stream"] # NotRun /\ handed["clip"] # NotRun)
        => handed["stream"] = handed["clip"]

\* both passes have scored a dataset of more than one batch whose last
\* sample, in the partial batch, has detections
C2_Witness ==
    /\ handed["stream"] # NotRun
    /\ handed["clip"] # NotRun
    /\ Len(testset) > batch_size
    /\ dets[Len(testset)] > 0
    /\ dets[1] > 0
    /\ LET buf == handed["clip"][1]
       IN  /\ Len(buf) = SeqSum(dets)
           /\ buf[Len(buf)][3] = testset[Len(testset)]

\* C3: in the streaming pass, the model is invoked with the new-video signal
\* raised on the first sample and on every sample whose video differs from
\* the previous sample's.
C3_SignalRaisedOnNewVideo ==
    \A k \in 1 .. Len(invoked) :
        LET r == invoked[k]
        IN  (r.sample = 0 \/ testset[r.sample + 1][1] # testset[r.sample][1]) => r.init

\* a later sample of another video, reached with the signal lowered
C3_Witness ==
    /\ invoked # <<>>
    /\ invoked[1].sample > 0
    /\ testset[invoked[1].sample + 1][1] # testset[invoked[1].sample][1]
    /\ ~invoked[1].before
    /\ invoked[1].init

\* C4: every worker enters the all-reduce once per frame, in frame order,
\* whatever its ground truth and matches; a worker that has returned has
\* entered it len_clip times, and as long as a worker has not returned some
\* worker or the collective can take a step.
C4_EveryWorkerEntersEveryFrame ==
    /\ \A w \in Workers :
          /\ c_pc[w] # "raised"
          /\ entries[w] = fid[w] + (IF c_pc[w] \in {"wait", "loss"} THEN 1 ELSE 0)
          /\ c_pc[w] = "done" => entries[w] = len_clip
    /\ Len(reduced) <= len_clip
    /\ (\E w \in Workers : c_pc[w] # "done") => ENABLED NextDist

\* all workers have returned from a two-frame clip whose last frame had
\* ground truth in one worker and none in another
C4_Witness ==
    /\ len_clip = 2
    /\ \A w \in Workers : c_pc[w] = "done" /\ entries[w] = 2
    /\ \E w \in Workers : frame_num_gt[w] = 0
    /\ \E w \in Workers : frame_num_gt[w] > 0

\* C5 (as stated): the divisor is max(1, sum over frames of foreground count /
\* world size); both sides times the world size.
C5_DivisorFlooredOnce ==
    \A w \in Workers :
        c_pc[w] = "done" =>
            /\ loss_dict[w].loss_labels[2] = Max(world, SeqSum(reduced))
            /\ loss_dict[w].loss_bboxes[2] = Max(world, SeqSum(reduced))

\* C5 (amended): the divisor is the sum over the frames of
\* max(1, the frame's foreground count summed across workers / world size);
\* both sides times the world size.
C5_DivisorSumOfFlooredFrames ==
    \A w \in Workers :
        c_pc[w] = "done" =>
            LET d == SeqSum([f \in 1 .. len_clip |-> Max(world, reduced[f])])
            IN  /\ loss_dict[w].loss_labels[2] = d
                /\ loss_dict[w].loss_bboxes[2] = d

\* a finished clip on which flooring every frame and flooring the total differ
C5_Witness ==
    /\ \A w \in Workers : c_pc[w] = "done"
    /\ len_clip > 1
    /\ SeqSum(reduced) > 0
    /\ loss_dict[1].loss_labels[2] # Max(world, SeqSum(reduced))

\* C6: the divisor of loss_labels and loss_bboxes is at least 1 (at least
\* world, times the world size), also when no worker has a foreground slot
\* in any frame.
C6_DivisorAtLeastOne ==
    \A w \in Workers :
        /\ c_pc[w] \in {"finish", "done"} => all_frames_num_fgs[w] >= world
        /\ c_pc[w] = "done" =>
              /\ loss_dict[w].loss_labels[2] >= world
              /\ loss_dict[w].loss_bboxes[2] >= world

\* all workers have returned and no frame had a foreground slot anywhere
C6_Witness ==
    /\ \A w \in Workers : c_pc[w] = "done"
    /\ Len(reduced) = len_clip
    /\ \A f \in 1 .. Len(reduced) : reduced[f] = 0

\* C7: a frame without ground truth in any sample does not raise, has no
\* foreground slot and no regression loss, and with igt >= 0 every slot of
\* it is a valid background slot.
C7_ZeroGtFrame ==
    \A w \in Workers :
        /\ c_pc[w] # "raised"
        /\ (c_pc[w] \in {"sync", "loss"} /\ \A b \in 1 .. B : NumTgt(frame_in[w][b]) = 0)
              => /\ foreground_idxs(gt_cls[w]) = {}
                 /\ local_fg[w] = 0
                 /\ cfg.igt >= 0 => \A f \in Flat : gt_cls[w][f] = num_classes
        /\ (c_pc[w] \in {"match", "finish", "done"} /\ fid[w] > 0 /\ frame_num_gt[w] = 0)
              => /\ cur_frame_loss_bboxes[w] = 0
                 /\ cfg.igt >= 0 => cur_frame_loss_labels[w] = B * M

\* the loop has finished on a frame without ground truth, igt >= 0
C7_Witness ==
    /\ c_pc[1] = "finish"
    /\ frame_num_gt[1] = 0
    /\ cfg.igt >= 0
    /\ cur_frame_loss_bboxes[1] = 0
    /\ cur_frame_loss_labels[1] = B * M

\* C8: without a process group the Criterion never enters the collective,
\* and the count a frame is normalised by is the local count floored at 1;
\* the collective is entered only when the capability check succeeds.
C8_NoCollectiveWithoutGroup ==
    \A w \in Workers :
        /\ (entries[w] > 0 \/ c_pc[w] = "wait") => dist
        /\ (~dist /\ c_pc[w] \in {"match", "finish", "done"} /\ fid[w] > 0)
              => num_foreground[w] = Max(1, local_fg[w])

\* a call without a process group has returned; its last frame had no
\* foreground slot and was normalised by 1
C8_Witness ==
    /\ ~dist
    /\ c_pc[1] = "done"
    /\ fid[1] = len_clip
    /\ entries[1] = 0
    /\ local_fg[1] = 0
    /\ num_foreground[1] = 1
    /\ all_frames_num_fgs[1] > len_clip

\* C9: pull_item on a sample whose annotation file is empty returns a target
\* of zero boxes and zero labels and raises no error.
C9_EmptyAnnotationReturnsNoObjects ==
    (d_pc = "idle" /\ d_result \in {"returned", "TypeError"} /\ label_rows = <<>>)
        => /\ d_result = "returned"
           /\ target.kind = "target"
           /\ Len(target.boxes) = 0
           /\ Len(target.labels) = 0

\* C10: load_weight on a checkpoint holding a parameter whose shape differs
\* from the model's drops the parameter and completes: it returns the model
\* with the remaining parameters of the checkpoint loaded.
C10_MismatchDroppedLoadCompletes ==
    (/\ l_pc = "done"
     /\ path_to_ckpt # "none"
     /\ \E k \in (DOMAIN checkpoint) \cap (DOMAIN model_state_dict) :
            checkpoint[k] # model_state_dict[k])
        => /\ l_result = "returned"
           /\ \A k \in (DOMAIN checkpoint) \cap (DOMAIN model_state_dict) :
                 IF checkpoint[k] # model_state_dict[k]
                 THEN k \notin DOMAIN checkpoint_state_dict /\ model_params[k] = "init"
                 ELSE model_params[k] = "ckpt"

\* C11: build_dataset with a name outside the five it knows exits the
\* process at once: it constructs no dataset and no evaluator and does not
\* return.
C11_UnknownDatasetExits ==
    (args_dataset \notin {"ucf24", "jhmdb21", "ava_v2.1", "ava_v2.2", "ava_pose"})
        => /\ b_dataset = Unbound
           /\ b_evaluator = Unbound
           /\ b_result # "returned"
           /\ b_pc \in {"start", "else", "done"}
           /\ b_pc = "done" => b_result = "exit" /\ exit_code >= 0

\* the call with an unknown name has ended in exit()
C11_Witness ==
    /\ args_dataset = "ucf101"
    /\ b_pc = "done"
    /\ b_result = "exit"
    /\ b_dataset = Unbound

\* C12: for each of the three tables, get_ava_mini_groundtruth returns
\* exactly the entries of the full table whose second is divisible by 4, with
\* their values, and leaves the full table as it was.
C12_MiniIsSecondsDivisibleByFour ==
    /\ full_groundtruth = gt_file
    /\ mg_pc = "done" =>
          \A i \in 0 .. 2 :
              /\ DOMAIN mini_groundtruth[i] =
                    {GtKey(v, sec) : v \in GtVideos, sec \in {x \in GtSecs : x % 4 = 0}}
                        \cap DOMAIN gt_file[i]
              /\ \A k \in DOMAIN mini_groundtruth[i] : mini_groundtruth[i][k] = gt_file[i][k]

\* the call has returned on a table that holds a second divisible by 4 below
\* 1000, one above 999 and one that is even but not divisible by 4
C12_Witness ==
    /\ mg_pc = "done"
    /\ GtKey("video_a", 904) \in DOMAIN mini_groundtruth[0]
    /\ GtKey("video_b", 1000) \in DOMAIN mini_groundtruth[2]
    /\ GtKey("video_a", 902) \in DOMAIN gt_file[1]
    /\ GtKey("video_a", 902) \notin DOMAIN mini_groundtruth[1]

\* C13: the result holds loss_labels, loss_bboxes and losses; loss_labels
\* and loss_bboxes are the summed per-frame classification and regression
\* losses over one common divisor, and losses is
\* loss_cls_weight * loss_labels + loss_reg_weight * loss_bboxes.
C13_LossDictComposition ==
    \A w \in Workers :
        /\ (fid[w] = 1 /\ c_pc[w] \in {"match", "finish", "done"})
              => /\ all_frames_loss_labels[w] = cur_frame_loss_labels[w]
                 /\ all_frames_loss_bboxes[w] = cur_frame_loss_bboxes[w]
        /\ c_pc[w] = "done" =>
              LET r == loss_dict[w]
              IN  /\ DOMAIN r = {"loss_labels", "loss_bboxes", "losses"}
                  /\ r.loss_labels[1] = all_frames_loss_labels[w]
                  /\ r.loss_bboxes[1] = all_frames_loss_bboxes[w]
                  /\ r.loss_labels[2] = r.loss_bboxes[2]
                  /\ r.losses[2] = r.loss_labels[2]
                  /\ r.losses[1] = loss_cls_weight * r.loss_labels[1]
                                     + loss_reg_weight * r.loss_bboxes[1]

\* a two-frame call with unequal weights has returned, both sums positive
\* and different
C13_Witness ==
    /\ c_pc[1] = "done"
    /\ len_clip = 2
    /\ loss_cls_weight # loss_reg_weight
    /\ loss_dict[1].loss_bboxes[1] > 0
    /\ loss_dict[1].loss_labels[1] > loss_dict[1].loss_bboxes[1]
    /\ loss_dict[1].loss_labels[1] > cur_frame_loss_labels[1]

\* no prediction slot of the frame is matched to more than one target
NoSlotCollision(frame) ==
    \A b \in 1 .. B :
        \A k1, k2 \in 1 .. Len(frame[b].indices) :
            frame[b].indices[k1][1] = frame[b].indices[k2][1]
                => frame[b].indices[k1][2] = frame[b].indices[k2][2]

\* the largest prediction-to-target IoU of slot m exceeds igt; a sample
\* without targets has no such IoU
MaxIouExceeds(s, c, m) == \E n \in 0 .. (NumTgt(s) - 1) : s.iou[<<m, n>>] > c.igt

\* the same, the largest IoU of a sample without targets taken as 0
MaxIouOrZeroExceeds(s, c, m) ==
    IF NumTgt(s) = 0 THEN 0 > c.igt ELSE MaxIouExceeds(s, c, m)

\* the class target the rules give slot m of the sample at batch position b,
\* exceeds telling whether an unmatched slot is ignored
RuleTarget(frame, c, b, m, exceeds(_, _, _)) ==
    LET s == frame[b]
        ks == {k \in 1 .. Len(s.indices) : s.indices[k][1] = m}
    IN  IF ks # {}
        THEN LET n == s.indices[CHOOSE k \in ks : TRUE][2]
             IN  IF s.a_iou[<<m, n>>] >= c.iou_t THEN s.labels[n + 1] ELSE -1
        ELSE IF exceeds(s, c, m) THEN -1 ELSE num_classes

\* C14 (as stated): when no slot is matched to more than one target, a
\* matched slot whose anchor-to-target IoU is at least iou_t gets its
\* target's label (even if its prediction IoU exceeds igt), a matched slot
\* below iou_t gets -1, an unmatched slot whose largest prediction-to-target
\* IoU exceeds igt gets -1, every other slot gets num_classes; the foreground
\* slots are exactly those with a target in [0, num_classes).
C14_ClassTargetRules ==
    \A w \in Workers :
        (c_pc[w] \in {"sync", "loss"} /\ NoSlotCollision(frame_in[w])) =>
            /\ \A b \in 1 .. B : \A m \in Anchors :
                   gt_cls[w][FlatSrc(m, b - 1)]
                      = RuleTarget(frame_in[w], cfg, b, m, MaxIouExceeds)
            /\ num_foreground[w] =
                   Cardinality({f \in Flat : gt_cls[w][f] \in 0 .. (num_classes - 1)})

\* C14 (amended): the same rules, the largest prediction-to-target IoU of a
\* slot of a sample without targets being 0: with igt < 0 every slot of such
\* a sample gets -1.
C14_ClassTargetRulesZeroFilled ==
    \A w \in Workers :
        (c_pc[w] \in {"sync", "loss"} /\ NoSlotCollision(frame_in[w])) =>
            /\ \A b \in 1 .. B : \A m \in Anchors :
                   gt_cls[w][FlatSrc(m, b - 1)]
                      = RuleTarget(frame_in[w], cfg, b, m, MaxIouOrZeroExceeds)
            /\ num_foreground[w] =
                   Cardinality({f \in Flat : gt_cls[w][f] \in 0 .. (num_classes - 1)})

\* the targets of a frame are set: in a sample of two objects one slot is
\* matched well and labelled although its prediction IoU exceeds igt, the
\* other is matched poorly and ignored; the other sample has no object, its
\* slots are ignored because igt < 0
C14_Witness ==
    /\ c_pc[1] = "loss"
    /\ NoSlotCollision(frame_in[1])
    /\ cfg.igt < 0
    /\ \E b \in 1 .. B :
          /\ NumTgt(frame_in[1][b]) = 0
          /\ \A m \in Anchors : gt_cls[1][FlatSrc(m, b - 1)] = -1
    /\ \E b \in 1 .. B :
          LET s == frame_in[1][b]
          IN  /\ NumTgt(s) = 2 /\ Len(s.indices) = 2
              /\ s.indices[1][1] # s.indices[2][1]
              /\ s.indices[1][2] # s.indices[2][2]
              /\ s.a_iou[s.indices[1]] >= cfg.iou_t
              /\ s.iou[s.indices[1]] > cfg.igt
              /\ s.a_iou[s.indices[2]] < cfg.iou_t
              /\ gt_cls[1][FlatSrc(s.indices[1][1], b - 1)] = s.labels[s.indices[1][2] + 1]
              /\ gt_cls[1][FlatSrc(s.indices[2][1], b - 1)] = -1
    /\ num_foreground[1] = 1

\* the entries (batch position, place in the sample's match list) of the
\* frame's matches whose anchor-to-target IoU is at least iou_t
GoodMatches(frame, c) ==
    UNION {{<<b, k>> : k \in {k \in 1 .. Len(frame[b].indices) :
                                frame[b].a_iou[frame[b].indices[k]] >= c.iou_t}} :
           b \in 1 .. B}

\* the flat slot of a match entry and the target it is matched to
PairOf(frame, bk) ==
    [src |-> FlatSrc(frame[bk[1]].indices[bk[2]][1], bk[1] - 1),
     tgt |-> <<bk[1] - 1, frame[bk[1]].indices[bk[2]][2]>>]

\* C15: the regression loss of a frame is taken over exactly the matched
\* pairs whose anchor-to-target IoU is at least iou_t, each once, the
\* prediction of slot src paired with its own matched target.
C15_RegressionOverGoodMatches ==
    [][\A w \in Workers :
          c_pc[w] = "loss" =>
            LET frame == frame_in[w]
                pairs == BoxLossPairs(frame, cfg)
                good == GoodMatches(frame, cfg)
            IN  /\ Len(pairs) = Cardinality(good)
                /\ \A bk \in good :
                      Cardinality({j \in 1 .. Len(pairs) : pairs[j] = PairOf(frame, bk)})
                        = Cardinality({q \in good : PairOf(frame, q) = PairOf(frame, bk)})
                /\ c_pc'[w] # "loss" =>
                      cur_frame_loss_bboxes'[w] = Cardinality(good)
      ]_vars

\* the regression loss of a frame of three objects is computed, two terms
\* were summed: a match was left out
C15_Witness ==
    /\ c_pc[1] = "finish"
    /\ frame_num_gt[1] = 3
    /\ cur_frame_loss_bboxes[1] = 2

\* the records the samples of the dataset produce, in dataset order and once
\* each, and the number of samples a pass has processed
RecordsOfDataset == Concat([i \in 1 .. Len(testset) |-> StreamPreds(i - 1)])
SamplesDone ==
    IF ev_pc = "stream" THEN iter_i
    ELSE IF ev_pc = "batch" THEN Min(iter_i * batch_size, Len(testset))
    ELSE 0

\* C16: in any sequence of completed passes, the buffer holds during a pass
\* exactly the records of the samples the pass has processed, in dataset
\* order and once each, and calculate_mAP is handed the records of the whole
\* dataset: no record of an earlier pass is in it.
C16_BufferIsThisPassRecords ==
    LET all == RecordsOfDataset
    IN  /\ all_preds = SubSeq(all, 1, SeqSum(SubSeq(dets, 1, SamplesDone)))
        /\ \A mode \in Modes : handed[mode] # NotRun => handed[mode] = <<all>>

\* a second pass, after a completed first one that scored records, has
\* appended its last sample and is about to call calculate_mAP
C16_Witness ==
    /\ passes = 2
    /\ ev_pc \in {"stream", "batch"}
    /\ iter_i > 0
    /\ \E mode \in Modes : handed[mode] # NotRun /\ handed[mode][1] # <<>>
    /\ Len(all_preds) = SeqSum(dets)
    /\ dets[Len(testset)] > 0
    /\ all_preds[Len(all_preds)][3] = testset[Len(testset)]

\* the whitelisted class ids in increasing order
WhitelistSeq == SelectSeq([c \in 1 .. NumScores |-> c], LAMBDA c : c \in class_whitelist)

\* C17: the three tables of get_ava_eval_data have the same keys (video
\* name, second); under every key the box, label and score lists have the
\* same length and their i-th entries come from the same record and class;
\* every buffered record contributes one triple per whitelisted class id
\* and none for any other, so every label is whitelisted.
C17_EvalDataTables ==
    \A mode \in Modes :
        handed[mode] # NotRun =>
            LET t == detections[mode][1]
                buf == handed[mode][1]
                W == Len(WhitelistSeq)
                KeyOf(i) == <<video_idx_to_name[buf[i][3][1] + 1], Fmt04(buf[i][3][2])>>
            IN  /\ DOMAIN t.boxes = {KeyOf(i) : i \in 1 .. Len(buf)}
                /\ DOMAIN t.labels = DOMAIN t.boxes
                /\ DOMAIN t.scores = DOMAIN t.boxes
                /\ \A k \in DOMAIN t.boxes :
                      LET at == SelectSeq([i \in 1 .. Len(buf) |-> i], LAMBDA i : KeyOf(i) = k)
                      IN  /\ Len(t.labels[k]) = Len(at) * W
                          /\ Len(t.boxes[k]) = Len(t.labels[k])
                          /\ Len(t.scores[k]) = Len(t.labels[k])
                          /\ \A r \in 1 .. Len(at) : \A c \in 1 .. W :
                                LET p == (r - 1) * W + c
                                    rec == buf[at[r]]
                                IN  /\ t.labels[k][p] = WhitelistSeq[c]
                                    /\ t.scores[k][p] = rec[2][WhitelistSeq[c]]
                                    /\ t.boxes[k][p] = <<rec[1][2], rec[1][1], rec[1][4], rec[1][3]>>
                          /\ \A p \in 1 .. Len(t.labels[k]) : t.labels[k][p] \in class_whitelist

\* a pass has scored a buffer of records of two frames, two of the records
\* of the same frame
C17_Witness ==
    \E mode \in Modes :
        /\ handed[mode] # NotRun
        /\ Len(handed[mode][1]) = 3
        /\ Cardinality(DOMAIN detections[mode][1].boxes) = 2
        /\ \E k \in DOMAIN detections[mode][1].labels :
              Len(detections[mode][1].labels[k]) = 2 * Cardinality(class_whitelist)

C19_OutOfRangeIndexAsserted ==
    /\ (d_result # "none" /\ index >= num_samples) => d_result = "AssertionError"
    /\ d_result # "IndexError"

====
